---- MODULE Spec2Model ----
(***************************************************************************)
(* A model of sawtooth_cli/identity.py: the address derivation, the        *)
(* transaction and batch construction, the create pipelines and the        *)
(* listing commands of the `sawtooth identity` command.                    *)
(*                                                                         *)
(* Text is modelled as a sequence of one-character strings.  A hex digest  *)
(* is an abstract piece of text that records the algorithm, the hashed     *)
(* value and how many of its leading characters are kept; two digests are  *)
(* equal exactly when these agree (an ideal, collision-free hash).  A      *)
(* composed hex string is the sequence of its pieces.                      *)
(***************************************************************************)
EXTENDS Integers, Sequences, FiniteSets, TLC

VARIABLES
    call,        \* a function applied on its own: its name and arguments
    ret,         \* what the call returned (<<>> before it returns)
    returned,    \* whether the call has returned
    now,         \* the reading of time.time()
    built,       \* the transactions built so far, in the order built
    argv,        \* the command line of one invocation
    args,        \* the namespace the argument parser produced from argv
    pc,          \* where the invocation is
    failed_in,   \* the function that raised ("" while none has)
    keys,        \* what _read_signing_keys returned
    txns,        \* the handler's txns list
    batch_list,  \* the handler's batch_list
    sign_calls,  \* the number of signing.sign calls made
    out_file,    \* what the invocation did to the output file
    rest_sent,   \* the bodies handed to RestClient.send_batches
    file_writes, \* the number of times the file branch was entered
    rest_sends,  \* the number of times the REST branch was entered
    ledger,      \* what RestClient.list_state returns
    printed      \* what a list command printed

fnVars == <<call, ret, returned>>
nonceVars == <<now, built>>
runVars == <<argv, args, pc, failed_in>>
createVars == <<keys, txns, batch_list, sign_calls, out_file, rest_sent,
                file_writes, rest_sends>>
listVars == <<ledger, printed>>
vars == <<fnVars, nonceVars, runVars, createVars, listVars>>

(***************************************************************************)
(* Bounds of the model.                                                    *)
(***************************************************************************)
MaxNameLen == 5
MaxTxns == 3
MaxClock == 1
MaxBuilds == 2
MaxRules == 2
MaxEntities == 3

Chars == {".", "a", "b"}

Min(a, b) == IF a < b THEN a ELSE b

\* Every text over Chars of length at most n.
Texts(n) == UNION {[1..k -> Chars] : k \in 0..n}

(***************************************************************************)
(* Module constants, identity.py lines 44-52.                              *)
(***************************************************************************)
IDENTITY_NAMESPACE == "00001d"
_MAX_KEY_PARTS == 4
_FIRST_ADDRESS_PART_SIZE == 14
_ADDRESS_PART_SIZE == 16
_POLICY_PREFIX == "00"
_ROLE_PREFIX == "01"
_POLICY_HASH_SIZE == 62

(***************************************************************************)
(* Pieces of hex text.                                                     *)
(***************************************************************************)
Sha256HexLen == 64
Sha512HexLen == 128

\* A literal piece of text.
Lit(s) == [kind |-> "lit", of |-> <<s>>, n |-> Len(s)]

\* hashlib.<alg>(value).hexdigest(): a piece of hexlen characters.
HexDigest(alg, value, hexlen) == [kind |-> alg, of |-> value, n |-> hexlen]

\* piece[:k]
Prefix(piece, k) == [piece EXCEPT !.n = Min(k, piece.n)]

\* The number of characters of a composed hex string.
RECURSIVE StrLen(_)
StrLen(pieces) ==
    IF pieces = <<>> THEN 0 ELSE Head(pieces).n + StrLen(Tail(pieces))

\* [x] * k
Repeat(x, k) == [i \in 1..(IF k > 0 THEN k ELSE 0) |-> x]

(***************************************************************************)
(* str.find and str.split(sep, maxsplit) for a one-character separator:    *)
(* split at each separator from the left while splits remain, then keep    *)
(* the rest whole.  maxsplit = -1 means no limit.                          *)
(***************************************************************************)
Find(s, sep) ==
    IF \E i \in 1..Len(s) : s[i] = sep
    THEN CHOOSE i \in 1..Len(s) : s[i] = sep /\ \A j \in 1..(i - 1) : s[j] # sep
    ELSE 0

RECURSIVE split(_, _, _)
split(s, sep, maxsplit) ==
    LET pos == Find(s, sep) IN
    IF maxsplit = 0 \/ pos = 0
    THEN <<s>>
    ELSE <<SubSeq(s, 1, pos - 1)>>
             \o split(SubSeq(s, pos + 1, Len(s)), sep, maxsplit - 1)

(***************************************************************************)
(* Address derivation, identity.py lines 496-515.                          *)
(***************************************************************************)
_to_hash(value) == HexDigest("sha256", value, Sha256HexLen)

EmptyPartShort == Prefix(HexDigest("sha256", <<>>, Sha256HexLen), _FIRST_ADDRESS_PART_SIZE)
_EMPTY_PART == Prefix(HexDigest("sha256", <<>>, Sha256HexLen), _ADDRESS_PART_SIZE)

KeyPartsOneTooMany(role_name) == split(role_name, ".", _MAX_KEY_PARTS)
key_parts(role_name) == split(role_name, ".", _MAX_KEY_PARTS - 1)

_role_to_address(role_name) ==
    LET parts == key_parts(role_name)
        first == <<Prefix(_to_hash(parts[1]), _FIRST_ADDRESS_PART_SIZE)>>
        rest  == [i \in 1..(Len(parts) - 1) |->
                     Prefix(_to_hash(parts[i + 1]), _ADDRESS_PART_SIZE)]
        addr_parts == first \o rest
        padded == addr_parts \o Repeat(_EMPTY_PART, _MAX_KEY_PARTS - Len(addr_parts))
    IN  <<Lit(IDENTITY_NAMESPACE), Lit(_ROLE_PREFIX)>> \o padded

_policy_to_address(policy_name) ==
    <<Lit(IDENTITY_NAMESPACE), Lit(_POLICY_PREFIX),
      Prefix(_to_hash(policy_name), _POLICY_HASH_SIZE)>>

(***************************************************************************)
(* Protobuf messages, hashing and signing.  A serialized message is the    *)
(* message tagged with its type; signing.sign gives a value that records   *)
(* the signed bytes and the key.                                           *)
(***************************************************************************)
SerializeToString(kind, msg) == [pb |-> kind, msg |-> msg]
ParseFromString(bytes) == bytes.msg

sign(message, signing_key) == [signed |-> message, by |-> signing_key]
generate_pubkey(signing_key) == [pubkey_of |-> signing_key]

\* time.time().hex().encode()
FloatHex(t) == [hex |-> t]
Encode(s) == [utf8 |-> s]

(***************************************************************************)
(* _create_policy_txn, identity.py lines 366-406.  A rule is a text over   *)
(* the symbols below; a word of a rule is the run of symbols between two   *)
(* spaces, and equals "PERMIT_KEY" only as the one symbol <<"PERMIT_KEY">>.*)
(***************************************************************************)
Keywords == {<<"PERMIT_KEY">>, <<"DENY_KEY">>}

\* rule[1] of a rule whose split has one word only: IndexError.
RuleRaises(rule) ==
    LET words == split(rule, " ", -1) IN
    words[1] \in Keywords /\ Len(words) < 2

rules_raise(rules) == \E i \in 1..Len(rules) : RuleRaises(rules[i])

RECURSIVE policy_entries(_)
policy_entries(rules) ==
    IF rules = <<>> THEN <<>>
    ELSE LET words == split(Head(rules), " ", -1) IN
         IF words[1] = <<"PERMIT_KEY">>
         THEN <<[type |-> "PERMIT_KEY", key |-> words[2]]>> \o policy_entries(Tail(rules))
         ELSE IF words[1] = <<"DENY_KEY">>
         THEN <<[type |-> "DENY_KEY", key |-> words[2]]>> \o policy_entries(Tail(rules))
         ELSE policy_entries(Tail(rules))

policy_payload(policy_name, rules) ==
    [type |-> "POLICY",
     data |-> SerializeToString("Policy",
                  [name |-> policy_name, entries |-> policy_entries(rules)])]

role_payload(role_name, policy_name) ==
    [type |-> "ROLE",
     data |-> SerializeToString("Role",
                  [name |-> role_name, policy_name |-> policy_name])]

PayloadSha512OfData(payload) == HexDigest("sha512", payload.data, Sha512HexLen)
payload_sha512(payload) ==
    HexDigest("sha512", SerializeToString("IdentityPayload", payload), Sha512HexLen)

TransactionHeader(pubkey, inputs, outputs, payload, t) ==
    [signer_pubkey    |-> pubkey,
     family_name      |-> "sawtooth_identity",
     family_version   |-> "1.0",
     inputs           |-> inputs,
     outputs          |-> outputs,
     dependencies     |-> <<>>,
     payload_encoding |-> "application/protobuf",
     payload_sha512   |-> payload_sha512(payload),
     batcher_pubkey   |-> pubkey,
     nonce            |-> Encode(FloatHex(t))]

\* The signed transaction around a header and a payload (lines 397-406, 430-439).
Transaction(header, payload, signing_key) ==
    LET header_bytes == SerializeToString("TransactionHeader", header) IN
    [header           |-> header_bytes,
     payload          |-> SerializeToString("IdentityPayload", payload),
     header_signature |-> sign(header_bytes, signing_key)]

\* t is the reading of time.time() the call makes.
_create_policy_txn(pubkey, signing_key, policy_name, rules, t) ==
    LET payload == policy_payload(policy_name, rules)
        policy_address == _policy_to_address(policy_name)
        header == TransactionHeader(pubkey, <<policy_address>>, <<policy_address>>,
                                    payload, t)
    IN  Transaction(header, payload, signing_key)

RoleInputsSwapped(policy_address, role_address) == <<role_address, policy_address>>
role_txn_inputs(policy_address, role_address) == <<policy_address, role_address>>

_create_role_txn(pubkey, signing_key, role_name, policy_name, t) ==
    LET payload == role_payload(role_name, policy_name)
        policy_address == _policy_to_address(policy_name)
        role_address == _role_to_address(role_name)
        header == TransactionHeader(pubkey,
                                    role_txn_inputs(policy_address, role_address),
                                    <<role_address>>, payload, t)
    IN  Transaction(header, payload, signing_key)

(***************************************************************************)
(* _create_batch, identity.py lines 472-493.                               *)
(***************************************************************************)
BatchWithoutTransactions(pubkey, signing_key, transactions) ==
    LET batch_header == SerializeToString("BatchHeader",
                            [signer_pubkey   |-> pubkey,
                             transaction_ids |-> <<>>])
    IN  [header           |-> batch_header,
         header_signature |-> sign(batch_header, signing_key),
         transactions     |-> <<>>]

TxnIdsReversed(transactions) ==
    [i \in 1..Len(transactions) |->
        transactions[Len(transactions) + 1 - i].header_signature]
txn_ids(transactions) ==
    [i \in 1..Len(transactions) |-> transactions[i].header_signature]

_create_batch(pubkey, signing_key, transactions) ==
    LET batch_header == SerializeToString("BatchHeader",
                            [signer_pubkey   |-> pubkey,
                             transaction_ids |-> txn_ids(transactions)])
    IN  [header           |-> batch_header,
         header_signature |-> sign(batch_header, signing_key),
         transactions     |-> transactions]

(***************************************************************************)
(* Values the variables of the other specifications rest at.               *)
(***************************************************************************)
NoArgs == [subcommand |-> "", cmd |-> ""]

FnIdle == call = [fn |-> ""] /\ ret = <<>> /\ returned = FALSE
NonceIdle == now = 0 /\ built = <<>>
RunIdle == argv = NoArgs /\ args = NoArgs /\ pc = "" /\ failed_in = ""
CreateIdle ==
    /\ keys = <<>> /\ txns = <<>> /\ batch_list = <<>>
    /\ sign_calls = 0 /\ out_file = <<>> /\ rest_sent = <<>>
    /\ file_writes = 0 /\ rest_sends = 0
ListIdle == ledger = <<>> /\ printed = <<>>

(***************************************************************************)
(* Inputs.                                                                 *)
(***************************************************************************)
\* The names given on a command line.
CliNames == {<<"a">>, <<"a", ".", "b">>}

\* The key pair of the key file key_filename.
KeyPair(key_filename) ==
    LET signing_key == [read_from |-> key_filename] IN
    [pubkey |-> generate_pubkey(signing_key), signing_key |-> signing_key]

\* The rule arguments given on a command line.
RuleTexts ==
    { <<"PERMIT_KEY", " ", "k1">>,
      <<"DENY_KEY", " ", "k2">>,
      <<"PERMIT_KEY">>,
      <<"DENY_KEY">>,
      <<"ALLOW", " ", "k1">>,
      <<"PERMIT_KEY", " ", "k1", " ", "k2">>,
      <<>> }

RuleLists == UNION {[1..k -> RuleTexts] : k \in 1..MaxRules}

\* Transactions to batch: built by the two builders at different times.
SomeTxns ==
    LET k == KeyPair("alice.priv") IN
    { _create_policy_txn(k.pubkey, k.signing_key, <<"a">>,
                         <<<<"PERMIT_KEY", " ", "k1">> >>, t) : t \in 0..1 }
    \cup
    { _create_role_txn(k.pubkey, k.signing_key, <<"a">>, <<"a">>, t) : t \in 0..1 }

(***************************************************************************)
(* The address functions and _create_batch, each applied on its own to     *)
(* every bounded input.                                                    *)
(***************************************************************************)
FnInit ==
    /\ call \in [fn : {"_role_to_address", "_policy_to_address"},
                 name : Texts(MaxNameLen)]
              \cup
              [fn : {"_create_batch"},
               keys : {KeyPair("alice.priv")},
               transactions : UNION {[1..k -> SomeTxns] : k \in 0..MaxTxns}]
    /\ ret = <<>>
    /\ returned = FALSE
    /\ NonceIdle /\ RunIdle /\ CreateIdle /\ ListIdle

RoleToAddress ==
    /\ ~returned
    /\ call.fn = "_role_to_address"
    /\ ret' = _role_to_address(call.name)
    /\ returned' = TRUE
    /\ UNCHANGED <<call, nonceVars, runVars, createVars, listVars>>

PolicyToAddress ==
    /\ ~returned
    /\ call.fn = "_policy_to_address"
    /\ ret' = _policy_to_address(call.name)
    /\ returned' = TRUE
    /\ UNCHANGED <<call, nonceVars, runVars, createVars, listVars>>

CreateBatchCall ==
    /\ ~returned
    /\ call.fn = "_create_batch"
    /\ ret' = _create_batch(call.keys.pubkey, call.keys.signing_key,
                            call.transactions)
    /\ returned' = TRUE
    /\ UNCHANGED <<call, nonceVars, runVars, createVars, listVars>>

FnNext == RoleToAddress \/ PolicyToAddress \/ CreateBatchCall

SpecFn == FnInit /\ [][FnNext]_vars

(***************************************************************************)
(* Transactions built one after another while the clock runs.              *)
(***************************************************************************)
NonceInit ==
    /\ now = 0
    /\ built = <<>>
    /\ FnIdle /\ RunIdle /\ CreateIdle /\ ListIdle

\* time.time() reads a later value.
Tick ==
    /\ now < MaxClock
    /\ now' = now + 1
    /\ UNCHANGED <<built, fnVars, runVars, createVars, listVars>>

BuildPolicyTxn ==
    /\ Len(built) < MaxBuilds
    /\ \E policy_name \in CliNames :
          built' = Append(built,
                      LET k == KeyPair("alice.priv") IN
                      _create_policy_txn(k.pubkey, k.signing_key, policy_name,
                                         <<<<"PERMIT_KEY", " ", "k1">> >>, now))
    /\ UNCHANGED <<now, fnVars, runVars, createVars, listVars>>

BuildRoleTxn ==
    /\ Len(built) < MaxBuilds
    /\ \E role_name \in CliNames, policy_name \in CliNames :
          built' = Append(built,
                      LET k == KeyPair("alice.priv") IN
                      _create_role_txn(k.pubkey, k.signing_key, role_name,
                                       policy_name, now))
    /\ UNCHANGED <<now, fnVars, runVars, createVars, listVars>>

NonceNext == Tick \/ BuildPolicyTxn \/ BuildRoleTxn

SpecNonce == NonceInit /\ [][NonceNext]_vars

(***************************************************************************)
(* The create commands: one invocation of `identity policy create` or      *)
(* `identity role create`, from its command line to its delivery.          *)
(***************************************************************************)
\* add_identity_parser: the default of --url (lines 87-91, 143-147).
NoUrlDefault == "None"
create_url_default == "http://localhost:8080"

\* -o and --url are in one mutually exclusive group: giving both is a usage
\* error; an option not given is None, or its default.
parse_rejects(line) == line.output # "None" /\ line.url # "None"
parse_args(line) ==
    [line EXCEPT !.url = IF line.url = "None" THEN create_url_default ELSE line.url]

CommandLines ==
    [subcommand : {"policy"}, cmd : {"create"},
     key : {"None", "alice.priv"},
     output : {"None", "out.batch"},
     url : {"None", "http://rest:8008"},
     name : CliNames, rule : RuleLists, policy : {<<>>}]
    \cup
    [subcommand : {"role"}, cmd : {"create"},
     key : {"None", "alice.priv"},
     output : {"None", "out.batch"},
     url : {"None", "http://rest:8008"},
     name : CliNames, rule : {<<>>}, policy : CliNames]

Init ==
    /\ argv \in CommandLines
    /\ args = NoArgs
    /\ pc = "parse"
    /\ failed_in = ""
    /\ CreateIdle
    /\ FnIdle /\ NonceIdle /\ ListIdle

ParseArgs ==
    /\ pc = "parse"
    /\ IF parse_rejects(argv)
       THEN /\ pc' = "usage_error"
            /\ UNCHANGED args
       ELSE /\ args' = parse_args(argv)
            /\ pc' = "read_keys"
    /\ UNCHANGED <<argv, failed_in, createVars, fnVars, nonceVars, listVars>>

\* _read_signing_keys (lines 442-469): the file cannot be read (CliException),
\* its text is no key (generate_pubkey raises), or the key pair is returned.
ReadSigningKeys ==
    /\ pc = "read_keys"
    /\ LET filename == IF args.key = "None" THEN "~/.sawtooth/keys/user.priv"
                       ELSE args.key
       IN \E outcome \in {"unreadable", "not_a_key", "ok"} :
             IF outcome = "ok"
             THEN /\ keys' = KeyPair(filename)
                  /\ pc' = "create_txn"
                  /\ UNCHANGED failed_in
             ELSE /\ pc' = "failed"
                  /\ failed_in' = IF outcome = "unreadable" THEN "open_key_file"
                                  ELSE "generate_pubkey"
                  /\ UNCHANGED keys
    /\ UNCHANGED <<argv, args, txns, batch_list, sign_calls, out_file, rest_sent,
                   file_writes, rest_sends, fnVars, nonceVars, listVars>>

\* txns = [_create_policy_txn(...)] (lines 201-202): an IndexError leaves the
\* handler before signing.sign is called.
CreatePolicyTxn ==
    /\ pc = "create_txn"
    /\ args.subcommand = "policy"
    /\ IF rules_raise(args.rule)
       THEN /\ pc' = "failed"
            /\ failed_in' = "_create_policy_txn"
            /\ UNCHANGED <<txns, sign_calls>>
       ELSE /\ \E t \in 0..MaxClock :
                  txns' = <<_create_policy_txn(keys.pubkey, keys.signing_key,
                                               args.name, args.rule, t)>>
            /\ sign_calls' = sign_calls + 1
            /\ pc' = "create_batch"
            /\ UNCHANGED failed_in
    /\ UNCHANGED <<argv, args, keys, batch_list, out_file, rest_sent,
                   file_writes, rest_sends, fnVars, nonceVars, listVars>>

\* txns = [_create_role_txn(...)] (lines 294-295).
CreateRoleTxn ==
    /\ pc = "create_txn"
    /\ args.subcommand = "role"
    /\ \E t \in 0..MaxClock :
          txns' = <<_create_role_txn(keys.pubkey, keys.signing_key,
                                     args.name, args.policy, t)>>
    /\ sign_calls' = sign_calls + 1
    /\ pc' = "create_batch"
    /\ UNCHANGED <<argv, args, failed_in, keys, batch_list, out_file, rest_sent,
                   file_writes, rest_sends, fnVars, nonceVars, listVars>>

\* batch = _create_batch(...); batch_list = BatchList(batches=[batch]).
CreateBatch ==
    /\ pc = "create_batch"
    /\ batch_list' = [batches |->
                         <<_create_batch(keys.pubkey, keys.signing_key, txns)>>]
    /\ sign_calls' = sign_calls + 1
    /\ pc' = "deliver"
    /\ UNCHANGED <<argv, args, failed_in, keys, txns, out_file, rest_sent,
                   file_writes, rest_sends, fnVars, nonceVars, listVars>>

\* What a file write leaves behind: open() failed and the file is as it was;
\* the write failed and the file holds none or only part of the bytes; or the
\* file holds all of them.
FileAfter(outcome, bytes) ==
    IF outcome = "open_fails" THEN <<>>
    ELSE <<[path_holds |-> IF outcome = "ok" THEN "all"
                           ELSE IF outcome = "write_fails_empty" THEN "none"
                           ELSE "part",
            of |-> bytes]>>

\* The delivery of a create handler (lines 208-219, 301-312).
Deliver ==
    /\ pc = "deliver"
    /\ IF args.output # "None"
       THEN /\ file_writes' = file_writes + 1
            /\ \E outcome \in {"ok", "open_fails", "write_fails_empty",
                               "write_fails_partial"} :
                  /\ out_file' = FileAfter(outcome,
                                    SerializeToString("BatchList", batch_list))
                  /\ pc' = IF outcome = "ok" THEN "done" ELSE "failed"
                  /\ failed_in' = IF outcome = "ok" THEN "" ELSE "write_batch_file"
            /\ UNCHANGED <<rest_sent, rest_sends>>
       ELSE IF args.url # "None"
       THEN /\ rest_sends' = rest_sends + 1
            /\ rest_sent' = Append(rest_sent, batch_list)
            /\ \E outcome \in {"ok", "transport_error"} :
                  /\ pc' = IF outcome = "ok" THEN "done" ELSE "failed"
                  /\ failed_in' = IF outcome = "ok" THEN "" ELSE "send_batches"
            /\ UNCHANGED <<out_file, file_writes>>
       ELSE /\ pc' = "failed"
            /\ failed_in' = "no_target"
            /\ UNCHANGED <<out_file, rest_sent, file_writes, rest_sends>>
    /\ UNCHANGED <<argv, args, keys, txns, batch_list, sign_calls,
                   fnVars, nonceVars, listVars>>

Next ==
    \/ ParseArgs
    \/ ReadSigningKeys
    \/ CreatePolicyTxn
    \/ CreateRoleTxn
    \/ CreateBatch
    \/ Deliver

Spec == Init /\ [][Next]_vars

(***************************************************************************)
(* The list commands, identity.py lines 222-284 and 315-363.               *)
(***************************************************************************)
_MIN_PRINT_WIDTH == 15

\* Python's order of str: by code point, a proper prefix first.
Ord(c) == CASE c = "." -> 46 [] c = "a" -> 97 [] c = "b" -> 98

LexLess(x, y) ==
    \E k \in 0..Min(Len(x), Len(y)) :
        /\ \A i \in 1..k : x[i] = y[i]
        /\ IF k = Len(x) THEN k < Len(y)
           ELSE k < Len(y) /\ Ord(x[k + 1]) < Ord(y[k + 1])

LexLeq(x, y) == x = y \/ LexLess(x, y)

b64encode(bytes) == [b64 |-> bytes]
b64decode(text) == text.b64

\* The entities of every blob, in the order returned (lines 229-235, 324-330).
RECURSIVE decode_all(_, _)
decode_all(state_values, field) ==
    IF state_values = <<>> THEN <<>>
    ELSE ParseFromString(b64decode(Head(state_values).data))[field]
             \o decode_all(Tail(state_values), field)

\* list.sort(key=lambda p: p.name): stable, ascending by name.
Unsorted(entities) == entities

RECURSIVE sort_by_name(_)
sort_by_name(entities) ==
    IF entities = <<>> THEN <<>>
    ELSE LET n == Len(entities)
             x == entities[n]
             before == sort_by_name(SubSeq(entities, 1, n - 1))
             k == Cardinality({i \in 1..(n - 1) : LexLeq(before[i].name, x.name)})
         IN  SubSeq(before, 1, k) \o <<x>> \o SubSeq(before, k + 1, n - 1)

\* text[:width] + '...' if len(text) > width else text
Clip(text, len, width) ==
    [text |-> text, shown |-> Min(len, width), dots |-> len > width]
Whole(text, len) == [text |-> text, shown |-> len, dots |-> FALSE]

print_width(tty_width, name) ==
    LET width == tty_width - Len(name) - 3 IN
    IF width > _MIN_PRINT_WIDTH THEN width ELSE _MIN_PRINT_WIDTH

\* Policy.Type.Name(entry.type) + " " + entry.key, after `indent` spaces.
entry_text(entry) == <<entry.type, " ">> \o entry.key
entry_len(entry, indent) == indent + Len(entry.type) + 1 + Len(entry.key)

\* A dict filled with name: cells in the order of `items`: a later name
\* replaces an earlier.
dict_of(items) ==
    [name \in {items[i].name : i \in 1..Len(items)} |->
        LET last == CHOOSE i \in 1..Len(items) :
                        /\ items[i].name = name
                        /\ \A j \in (i + 1)..Len(items) : items[j].name # name
        IN  items[last].cells]

\* json.dumps(sort_keys=True) and yaml.dump: the items by ascending key.
RECURSIVE sorted_items(_, _)
sorted_items(dict, names) ==
    IF names = {} THEN <<>>
    ELSE LET least == CHOOSE x \in names : \A y \in names : LexLeq(x, y) IN
         <<[name |-> least, cells |-> dict[least]]>>
             \o sorted_items(dict, names \ {least})

policy_rows(printable_policies, format, tty_width) ==
    LET n == Len(printable_policies) IN
    IF format = "default"
    THEN [i \in 1..n |->
            LET policy == printable_policies[i]
                width == print_width(tty_width, policy.name)
            IN  [name |-> policy.name,
                 cells |-> [e \in 1..Len(policy.entries) |->
                               Clip(entry_text(policy.entries[e]),
                                    entry_len(policy.entries[e], 4), width)]]]
    ELSE IF format = "csv"
    THEN [i \in 1..n |->
            LET policy == printable_policies[i] IN
            [name |-> policy.name,
             cells |-> [e \in 1..Len(policy.entries) |->
                           Whole(entry_text(policy.entries[e]),
                                 entry_len(policy.entries[e], 0))]]]
    ELSE LET output == dict_of(
                 [i \in 1..n |->
                     LET policy == printable_policies[i] IN
                     [name |-> policy.name,
                      cells |-> [e \in 1..Len(policy.entries) |->
                                    Whole(entry_text(policy.entries[e]),
                                          entry_len(policy.entries[e], 0))]]])
         IN  sorted_items(output, DOMAIN output)

role_rows(printable_roles, format, tty_width) ==
    LET n == Len(printable_roles) IN
    IF format = "default"
    THEN [i \in 1..n |->
            LET role == printable_roles[i]
                width == print_width(tty_width, role.name)
            IN  [name |-> role.name,
                 cells |-> <<Clip(role.policy_name, Len(role.policy_name), width)>>]]
    ELSE IF format = "csv"
    THEN [i \in 1..n |->
            LET role == printable_roles[i] IN
            [name |-> role.name,
             cells |-> <<Whole(role.policy_name, Len(role.policy_name))>>]]
    ELSE LET roles == dict_of(
                 [i \in 1..n |->
                     LET role == printable_roles[i] IN
                     [name |-> role.name,
                      cells |-> <<Whole(role.policy_name, Len(role.policy_name))>>]])
         IN  sorted_items(roles, DOMAIN roles)

\* What the command prints: the csv header row or the snapshot's head, and the
\* entities' rows in the order printed.
_do_identity_policy_list(format, state, tty_width) ==
    LET printable_policies == sort_by_name(decode_all(state.data, "policies")) IN
    [format |-> format,
     header |-> IF format = "csv" THEN <<"POLICY NAME", "ENTRIES">> ELSE <<>>,
     head   |-> IF format \in {"json", "yaml"} THEN state.head ELSE "",
     rows   |-> policy_rows(printable_policies, format, tty_width)]

_do_identity_role_list(format, state, tty_width) ==
    LET printable_roles == sort_by_name(decode_all(state.data, "roles")) IN
    [format |-> format,
     header |-> IF format = "csv" THEN <<"KEY", "VALUE">> ELSE <<>>,
     head   |-> IF format \in {"json", "yaml"} THEN state.head ELSE "",
     rows   |-> role_rows(printable_roles, format, tty_width)]

(***************************************************************************)
(* The ledger states a list command may be given.                          *)
(***************************************************************************)
PolicyValues ==
    { [name |-> <<"a">>, entries |-> <<>>],
      [name |-> <<"a">>, entries |-> <<[type |-> "PERMIT_KEY", key |-> <<"a">>]>>],
      [name |-> <<"a", "b">>, entries |-> <<[type |-> "DENY_KEY", key |-> <<"b">>]>>],
      [name |-> <<"b">>, entries |-> <<[type |-> "PERMIT_KEY", key |-> <<"a">>],
                                       [type |-> "DENY_KEY", key |-> <<"b">>]>>] }

RoleValues ==
    { [name |-> <<"a">>, policy_name |-> <<"a">>],
      [name |-> <<"a">>, policy_name |-> <<"b">>],
      [name |-> <<"a", "b">>, policy_name |-> <<"a">>],
      [name |-> <<"b">>, policy_name |-> <<"a">>] }

\* The entities `flat`, cut into blobs after each position of `cuts`.
BlobsOf(flat, cuts, kind, field) ==
    LET blob_of(i) == 1 + Cardinality({c \in cuts : c < i})
        count == IF flat = <<>> THEN 0 ELSE Cardinality(cuts) + 1
        first(b) == CHOOSE i \in 1..Len(flat) :
                        blob_of(i) = b /\ \A j \in 1..(i - 1) : blob_of(j) # b
        last(b) == CHOOSE i \in 1..Len(flat) :
                        blob_of(i) = b /\ \A j \in (i + 1)..Len(flat) : blob_of(j) # b
    IN  [b \in 1..count |->
            [data |-> b64encode(SerializeToString(kind,
                          [x \in {field} |-> SubSeq(flat, first(b), last(b))]))]]

States(values, kind, field) ==
    UNION { { [head |-> "block7", data |-> BlobsOf(flat, cuts, kind, field)] :
                cuts \in SUBSET (1..(Len(flat) - 1)) } :
            flat \in UNION {[1..k -> values] : k \in 0..MaxEntities} }

ListInit ==
    /\ args \in [subcommand : {"policy", "role"}, cmd : {"list"},
                 format : {"default", "csv", "json", "yaml"},
                 url : {"http://localhost:8080"}]
    /\ argv = args
    /\ ledger \in IF args.subcommand = "policy"
                  THEN States(PolicyValues, "PolicyList", "policies")
                  ELSE States(RoleValues, "RoleList", "roles")
    /\ pc = "list"
    /\ failed_in = ""
    /\ printed = <<>>
    /\ CreateIdle /\ FnIdle /\ NonceIdle

TtyWidths(format) == IF format = "default" THEN {10, 80} ELSE {80}

PolicyList ==
    /\ pc = "list"
    /\ args.subcommand = "policy"
    /\ \E tty_width \in TtyWidths(args.format) :
          printed' = _do_identity_policy_list(args.format, ledger, tty_width)
    /\ pc' = "done"
    /\ UNCHANGED <<argv, args, failed_in, ledger, createVars, fnVars, nonceVars>>

RoleList ==
    /\ pc = "list"
    /\ args.subcommand = "role"
    /\ \E tty_width \in TtyWidths(args.format) :
          printed' = _do_identity_role_list(args.format, ledger, tty_width)
    /\ pc' = "done"
    /\ UNCHANGED <<argv, args, failed_in, ledger, createVars, fnVars, nonceVars>>

ListNext == PolicyList \/ RoleList

SpecList == ListInit /\ [][ListNext]_vars

(***************************************************************************)
(* What the claims are stated with.                                        *)
(***************************************************************************)
DotPositions(n) == {i \in 1..Len(n) : n[i] = "."}

\* The position of the k-th dot of n.
NthDot(n, k) ==
    CHOOSE i \in DotPositions(n) :
        Cardinality({j \in DotPositions(n) : j < i}) = k - 1

\* The dot-delimited parts of n, the 4th being all that follows the 3rd dot.
PartCount(n) == Min(Cardinality(DotPositions(n)) + 1, 4)

Part(n, k) ==
    SubSeq(n, IF k = 1 THEN 1 ELSE NthDot(n, k - 1) + 1,
              IF k < PartCount(n) THEN NthDot(n, k) - 1 ELSE Len(n))

Segment(n, k) ==
    IF k <= PartCount(n)
    THEN [kind |-> "sha256", of |-> Part(n, k), n |-> IF k = 1 THEN 14 ELSE 16]
    ELSE [kind |-> "sha256", of |-> <<>>, n |-> 16]

RoleAddress(n) ==
    <<Lit("00001d"), Lit("01"),
      Segment(n, 1), Segment(n, 2), Segment(n, 3), Segment(n, 4)>>

PolicyAddress(n) ==
    <<Lit("00001d"), Lit("00"), [kind |-> "sha256", of |-> n, n |-> 62]>>

HeaderOf(txn) == ParseFromString(txn.header)

\* C1: for every non-empty role name n, _role_to_address(n) is '00001d', '01'
\* and four segments: the first 14 hex characters of the hash of part 1, the
\* first 16 of the hash of each further part of n split on '.' into at most 4
\* parts, and the first 16 of the hash of '' for each missing part; 70
\* characters in all.
ThmC1_RoleAddressLayout ==
    (returned /\ call.fn = "_role_to_address" /\ call.name # <<>>)
        => /\ ret = RoleAddress(call.name)
           /\ Len(ret) = 2 + 4
           /\ StrLen(ret) = 70

\* A name with more than 3 dots was addressed: its 4th part keeps a dot.
WitC1_FourthPartKeepsDots ==
    /\ returned
    /\ call.fn = "_role_to_address"
    /\ call.name = <<"a", ".", ".", ".", ".">>
    /\ ret[6] = [kind |-> "sha256", of |-> <<".">>, n |-> 16]
    /\ ret[4] = _EMPTY_PART

\* C10: for every role name n with fewer than 3 dots, n + '.' has the address
\* of n: an empty trailing component is the same as padding.
ThmC10_TrailingDotSameAddress ==
    (returned /\ call.fn = "_role_to_address"
        /\ Cardinality(DotPositions(call.name)) < 3)
        => _role_to_address(Append(call.name, ".")) = ret

\* 'a' was addressed, and 'a...' has the same address.
WitC10_DotsCollide ==
    /\ returned
    /\ call.fn = "_role_to_address"
    /\ call.name = <<"a">>
    /\ ret = _role_to_address(<<"a", ".", ".", ".">>)
    /\ ret # _role_to_address(<<"a", ".", ".", ".", ".">>)

\* C3: the batch header's transaction_ids has the length of the list given to
\* _create_batch, its i-th element is the header_signature of the i-th
\* transaction, and the batch's transactions are the list given, in order.
ThmC3_BatchIdsInOrder ==
    (returned /\ call.fn = "_create_batch")
        => LET ids == ParseFromString(ret.header).transaction_ids IN
           /\ Len(ids) = Len(call.transactions)
           /\ \A i \in 1..Len(call.transactions) :
                  ids[i] = call.transactions[i].header_signature
           /\ ret.transactions = call.transactions

\* A batch of three transactions, not all the same, was built.
WitC3_ThreeTransactions ==
    /\ returned
    /\ call.fn = "_create_batch"
    /\ Len(call.transactions) = 3
    /\ call.transactions[1] # call.transactions[3]
    /\ Len(ParseFromString(ret.header).transaction_ids) = 3

\* C6: any two transactions built, in any sequence of builds, carry different
\* nonces, also two built back to back from the same arguments.
CexC6_NoncesDistinct ==
    \A i \in 1..Len(built) : \A j \in 1..Len(built) :
        i # j => HeaderOf(built[i]).nonce # HeaderOf(built[j]).nonce

\* C2: a policy-create header has inputs = outputs = [policy_address(name)]; a
\* role-create header has inputs = [policy_address(policy), role_address(name)]
\* in that order and outputs = [role_address(name)], so it does not write the
\* policy address.
ThmC2_AddressSets ==
    (txns # <<>>)
        => LET header == HeaderOf(txns[1]) IN
           IF args.subcommand = "policy"
           THEN /\ header.inputs = <<PolicyAddress(args.name)>>
                /\ header.outputs = <<PolicyAddress(args.name)>>
           ELSE /\ header.inputs = <<PolicyAddress(args.policy), RoleAddress(args.name)>>
                /\ header.outputs = <<RoleAddress(args.name)>>
                /\ \A i \in 1..Len(header.outputs) :
                       header.outputs[i] # PolicyAddress(args.policy)

\* A role named as its policy was built: two inputs, one output.
WitC2_RoleNamedAsPolicy ==
    /\ txns # <<>>
    /\ args.subcommand = "role"
    /\ args.name = args.policy
    /\ Len(HeaderOf(txns[1]).inputs) = 2
    /\ HeaderOf(txns[1]).inputs[1] # HeaderOf(txns[1]).inputs[2]

\* C9: a built transaction's payload_sha512 is the SHA-512 of the payload
\* bytes the transaction holds, and its signer_pubkey is its batcher_pubkey.
ThmC9_PayloadHashAndSigner ==
    \A i \in 1..Len(txns) :
        LET header == HeaderOf(txns[i]) IN
        /\ header.payload_sha512 =
               [kind |-> "sha512", of |-> txns[i].payload, n |-> 128]
        /\ header.signer_pubkey = header.batcher_pubkey

\* A policy transaction with two entries was built.
WitC9_PolicyTxnBuilt ==
    /\ txns # <<>>
    /\ args.subcommand = "policy"
    /\ Len(ParseFromString(ParseFromString(txns[1].payload).data).entries) = 2
    /\ HeaderOf(txns[1]).signer_pubkey = keys.pubkey

\* The rules of 'PERMIT_KEY <key>' or 'DENY_KEY <key>' form: a keyword, a
\* space and a key.
Matches(rule) ==
    LET words == split(rule, " ", -1) IN
    Len(words) >= 2 /\ words[1] \in Keywords

RECURSIVE EntriesOfMatching(_)
EntriesOfMatching(rules) ==
    IF rules = <<>> THEN <<>>
    ELSE LET words == split(Head(rules), " ", -1) IN
         (IF Matches(Head(rules))
          THEN <<[type |-> words[1][1], key |-> words[2]]>> ELSE <<>>)
             \o EntriesOfMatching(Tail(rules))

\* C4: policy-create skips every rule that is not of the form
\* 'PERMIT_KEY <key>' or 'DENY_KEY <key>' (a keyword alone, another first
\* word): it raises no error, and the entries are those of the rules of that
\* form, in the order given.
CexC4_MalformedRulesSkipped ==
    (args.subcommand = "policy" /\ pc \in {"create_batch", "deliver", "done", "failed"}
        /\ failed_in \notin {"open_key_file", "generate_pubkey"})
        => /\ failed_in # "_create_policy_txn"
           /\ ParseFromString(ParseFromString(txns[1].payload).data).entries
                  = EntriesOfMatching(args.rule)

\* The batch list is one batch, signed, around the one signed transaction.
BatchComplete ==
    /\ Len(txns) = 1
    /\ txns[1].header_signature = sign(txns[1].header, keys.signing_key)
    /\ Len(batch_list.batches) = 1
    /\ LET batch == batch_list.batches[1] IN
       /\ batch.transactions = txns
       /\ ParseFromString(batch.header).transaction_ids
              = <<txns[1].header_signature>>
       /\ ParseFromString(batch.header).signer_pubkey = keys.pubkey
       /\ batch.header_signature = sign(batch.header, keys.signing_key)
    /\ sign_calls = 2

DeliveryFailures == {"write_batch_file", "send_batches"}

\* C5 as claimed: a run yields one complete batch or fails before any
\* signing call; no failure follows a signing call, and the file and the REST
\* endpoint get the complete batch list or nothing.
CexC5_NoFailureAfterSigning ==
    /\ pc = "failed" => sign_calls = 0
    /\ pc = "done" => BatchComplete
    /\ out_file # <<>> => out_file[1].path_holds = "all"
    /\ rest_sent # <<>> => rest_sent = <<batch_list>>

\* C5 as amended: a run that fails before delivery has made no signing call;
\* a run that reaches delivery holds one complete batch; the REST endpoint is
\* only ever sent that batch list; the file is only ever written from that
\* batch list's bytes, and holds all of them unless the write itself failed.
ThmC5_CompleteBatchOrNoSigning ==
    /\ (pc = "failed" /\ failed_in \notin DeliveryFailures) => sign_calls = 0
    /\ (pc \in {"deliver", "done"} \/ failed_in \in DeliveryFailures) => BatchComplete
    /\ rest_sent # <<>> => rest_sent = <<batch_list>>
    /\ out_file # <<>> =>
           /\ out_file[1].of = SerializeToString("BatchList", batch_list)
           /\ out_file[1].path_holds # "all" => failed_in = "write_batch_file"
    /\ pc = "done" =>
           IF args.output # "None"
           THEN out_file # <<>> /\ out_file[1].path_holds = "all" /\ rest_sent = <<>>
           ELSE rest_sent = <<batch_list>> /\ out_file = <<>>

\* A run failed while writing the file, after both signing calls.
WitC5_FailedAtDelivery ==
    /\ pc = "failed"
    /\ failed_in = "write_batch_file"
    /\ sign_calls = 2
    /\ out_file # <<>>

\* C7: an invocation that reaches delivery takes exactly one of the two
\* delivery branches: the file when an output path is given, the REST endpoint
\* otherwise; 'No target for create set' is never reached.
ThmC7_ExactlyOneTarget ==
    (pc = "done" \/ failed_in \in DeliveryFailures \cup {"no_target"})
        => /\ file_writes + rest_sends = 1
           /\ file_writes = 1 <=> args.output # "None"
           /\ failed_in # "no_target"

\* -o was given, so --url has its default: only the file was written.
WitC7_FileWithDefaultUrl ==
    /\ pc = "done"
    /\ args.output = "out.batch"
    /\ args.url = "http://localhost:8080"
    /\ file_writes = 1
    /\ rest_sends = 0
    /\ rest_sent = <<>>

\* Every entity the ledger returned, in the order returned.
Returned ==
    decode_all(ledger.data, IF args.subcommand = "policy" THEN "policies" ELSE "roles")

\* C8: policy list and role list present the entities of all blobs in
\* ascending order of name, in every format, whatever the order in which the
\* blobs and their entries came: the names printed ascend, they are the names
\* returned, and the default and csv formats print one row per entity.
ThmC8_ListedByName ==
    (pc = "done")
        => LET rows == printed.rows IN
           /\ \A i \in 1..Len(rows) : \A j \in 1..Len(rows) :
                  i < j => LexLeq(rows[i].name, rows[j].name)
           /\ {rows[i].name : i \in 1..Len(rows)}
                  = {Returned[i].name : i \in 1..Len(Returned)}
           /\ printed.format \in {"default", "csv"} => Len(rows) = Len(Returned)
           /\ printed.format \in {"json", "yaml"} =>
                  \A i \in 1..Len(rows) : \A j \in 1..Len(rows) :
                      i < j => rows[i].name # rows[j].name

\* 'b' came in the first blob, 'ab' and 'a' in the second, and are printed as
\* a, ab, b.
WitC8_Reordered ==
    /\ pc = "done"
    /\ Len(ledger.data) = 2
    /\ Len(Returned) = 3
    /\ Returned[1].name = <<"b">>
    /\ Returned[2].name = <<"a", "b">>
    /\ Returned[3].name = <<"a">>
    /\ printed.format = "default"
    /\ printed.rows[1].name = <<"a">>
    /\ printed.rows[2].name = <<"a", "b">>
    /\ printed.rows[3].name = <<"b">>

====
